---- MODULE Spec2Model ----
(***************************************************************************)
(* A model of entrypoint.go, the container entrypoint of the               *)
(* seven-days-to-die image: the settings merge (defaults, environment,     *)
(* forced overrides), the settings document writer and parser, and the     *)
(* remote-console client used for the health check and the graceful        *)
(* shutdown of the supervised server.                                      *)
(*                                                                         *)
(* Strings are sequences of tokens.  A token stands for a run of bytes;    *)
(* the token alphabet (TokenOrder) is prefix-free, so the lexicographic    *)
(* order of token sequences by token rank is the byte order that           *)
(* sort.Strings uses on the strings they stand for.                        *)
(***************************************************************************)
EXTENDS Integers, Sequences, FiniteSets, TLC

VARIABLES
    environ,       \* os.Environ(): a sequence of "NAME=value" items
    defaultsFile,  \* /server/serverconfig.xml: "unreadable" or a document
    mergeArgs,     \* the mappings of the last call of merge, in order
    settings,      \* the settings mapping (entrypoint's local `settings`)
    properties,    \* settings.Properties as built (and logged) by writeServerSettings
    settingsFile,  \* /generated/serverconfig.xml: "absent" or a document
    parsed,        \* the result of parsing settingsFile back
    pc,            \* position of the main flow
    args,          \* os.Args[1]: "health", or "none" when there is no argument
    mainErr,       \* the error the main flow holds ("none": not set yet)
    notify,        \* signal.Notify is in force for SIGINT and SIGTERM
    sigChan,       \* signals queued in sh.signalChannel (capacity 1)
    sigHandled,    \* values queued in sh.signalHandled (capacity 1)
    shSignal,      \* sh.signal: "nil" or "set"
    gpc,           \* position of the goroutine of handleSignals
    sigDelivered,  \* SIGINT/SIGTERM deliveries so far
    sigAt,         \* state of the server when the queued signal was delivered
    exitCode,      \* the code main passed to os.Exit (-1: os.Exit not called)
    errLogged,     \* main has written its error-level log line
    shCallback,    \* the callback handed to handleSignals: "none", "shutdown", "forward"
    forwarded,     \* signals sent to the child with cmd.Process.Signal
    cmds,          \* the commands runCmd has run, in order
    bootstrapped,  \* the environment holds _BOOTSTRAPPED=1
    currentUser,   \* what getCurrentUser finds: a user, or "unknown"
    envUid,        \* the value of UID in the environment ("": unset)
    envGid,        \* the value of GID in the environment ("": unset)
    nonRootUser,   \* the passwd entry of userName: a user, or NoUser when there is none
    desiredUser,   \* the user a command is to run as (NoUser: not chosen yet)
    ran,           \* the operations main has called
    deleteDefaultMods, \* DELETE_DEFAULT_MODS is "1" in the environment
    rootUrls,      \* ROOT_URLS, split at its commas
    modUrls,       \* MOD_URLS, split at its commas
    wiped,         \* clearDirectory has removed the Mods folder
    rootDone,      \* urls of ROOT_URLS installed so far
    modDone,       \* urls of MOD_URLS installed so far
    mods,          \* what the Mods folder holds: "default", and urls installed
    server,        \* the server process: "none", "running", "exited"
    serverStatus,  \* what cmd.Run returned for the command ("none": not returned)
    listening,     \* the console port accepts connections
    restartInterval, \* the restart interval of the environment, in minutes (0: none)
    uptime,        \* minutes since the server was started
    dpc,           \* position inside dialServer
    conn,          \* the client's end of the connection: "none", "open", "closed"
    peer,          \* the console's end of the connection
    inbuf,         \* text sent by the console and not read yet
    sent,          \* tokens the console has sent on the connection
    readData,      \* readUntilPattern's accumulated text (its local `data`)
    elapsed,       \* seconds since readUntilPattern took its start time
    readErr,       \* a conn.Read of this call has returned an error
    rupRes,        \* result of readUntilPattern: "none", "nil", "timeout"
    dialRes,       \* result of dialServer: "none", "nil", "connect", "timeout"
    written,       \* the commands handed to conn.Write
    healthy,       \* checkHealth's local `healthy`
    dialCount,     \* calls of net.Dial
    cbRes,         \* what the callback returned: "none", "nil", "write failed"
    closes         \* calls of conn.Close

settingsVars == <<environ, defaultsFile, mergeArgs, settings, properties,
                  settingsFile, parsed>>

userVars == <<bootstrapped, currentUser, envUid, envGid, nonRootUser, desiredUser, ran>>

installVars == <<deleteDefaultMods, rootUrls, modUrls, wiped, rootDone, modDone, mods>>

procVars == <<args, installVars, mainErr, notify, sigChan, sigHandled, shSignal, gpc,
              sigDelivered, sigAt, exitCode, errLogged, shCallback, forwarded,
              cmds, userVars>>

serverVars == <<server, serverStatus, listening, restartInterval, uptime>>

connVars == <<dpc, conn, peer, inbuf, sent, readData, elapsed, readErr, rupRes,
              dialRes, written, healthy, dialCount, cbRes, closes>>

lifeVars == <<procVars, serverVars, connVars>>

vars == <<settingsVars, pc, lifeVars>>

----------------------------------------------------------------------------
(* Bounds of the model. *)

\* most entries in the modelled process environment
MaxEnv == 2
\* most property elements in the shipped serverconfig.xml
MaxProps == 1
\* names a mapping handed to merge may define
MaxMergeKeys == 2
\* names a mapping handed to writeServerSettings directly may define
MaxKeys == 3
\* most SIGINT/SIGTERM deliveries in one run
MaxSignals == 2
\* most minutes of server uptime followed
MaxUptime == 3
\* longest restart interval of the environment, in minutes
MaxInterval == 2
\* most items in ROOT_URLS and in MOD_URLS
MaxUrls == 2
\* most tokens the console sends on one connection
MaxSend == 3
\* most tokens one conn.Read returns (the buffer of 128 bytes, in tokens)
MaxRead == 2
\* how far past the timeout the clock is followed, in seconds
MaxOver == 0

----------------------------------------------------------------------------
(* Strings. *)

\* The tokens in ascending byte order.  "<01>" stands for the control
\* character U+0001 (a legal byte of an environment value, not a legal XML
\* character) and "<FFFD>" for U+FFFD, the replacement character.
TokenOrder ==
    << "<01>", "&", "/data", "8080", "8081", "9999", "=", "MyServer",
       "SETTING_", "ServerName", "TelnetEnabled", "TelnetPort",
       "UserDataFolder", "WebDashboardEnabled", "WebDashboardPort", "X",
       "default", "false", "true", "<FFFD>" >>

Rank == [t \in {TokenOrder[i] : i \in 1..Len(TokenOrder)} |->
            CHOOSE i \in 1..Len(TokenOrder) : TokenOrder[i] = t]

\* a < b in the byte order of Go's string comparison
RECURSIVE StrLess(_, _)
StrLess(a, b) ==
    IF b = <<>> THEN FALSE
    ELSE IF a = <<>> THEN TRUE
    ELSE IF a[1] = b[1] THEN StrLess(Tail(a), Tail(b))
    ELSE Rank[a[1]] < Rank[b[1]]

\* strings.HasPrefix
HasPrefix(s, prefix) ==
    /\ Len(s) >= Len(prefix)
    /\ SubSeq(s, 1, Len(prefix)) = prefix

\* strings.TrimPrefix
TrimPrefix(s, prefix) ==
    IF HasPrefix(s, prefix) THEN SubSeq(s, Len(prefix) + 1, Len(s)) ELSE s

\* strings.Split(item, "="), first two parts: the value cut at a second "="
SplitAtEvery(item) ==
    LET eqs == {i \in 1..Len(item) : item[i] = "="} IN
    IF eqs = {} THEN <<item>>
    ELSE LET first == CHOOSE i \in eqs : \A j \in eqs : i <= j
             rest == {i \in eqs : i > first}
             stop == IF rest = {} THEN Len(item) + 1
                     ELSE CHOOSE i \in rest : \A j \in rest : i <= j
         IN <<SubSeq(item, 1, first - 1), SubSeq(item, first + 1, stop - 1)>>

\* strings.SplitN(item, "=", 2): one part when item holds no "=", otherwise
\* the text before the first "=" and all the text after it
SplitN2(item) ==
    LET eqs == {i \in 1..Len(item) : item[i] = "="} IN
    IF eqs = {} THEN <<item>>
    ELSE LET first == CHOOSE i \in eqs : \A j \in eqs : i <= j IN
         <<SubSeq(item, 1, first - 1), SubSeq(item, first + 1, Len(item))>>

envSettingPrefix == <<"SETTING_">>
folderData == <<"/data">>
folderGenerated == <<"/generated">>
folderServer == <<"/server">>

EmptyMap == <<>>

----------------------------------------------------------------------------
(* The settings merger. *)

mergeFirstWins(items) ==
    LET RECURSIVE fold(_)
        fold(its) ==
            IF its = <<>> THEN EmptyMap
            ELSE LET data == fold(SubSeq(its, 1, Len(its) - 1))
                     item == its[Len(its)]
                 IN [k \in DOMAIN data \cup DOMAIN item |->
                        IF k \in DOMAIN data THEN data[k] ELSE item[k]]
    IN fold(items)

\* merge(items...): every mapping in order, each key written over the last
merge(items) ==
    LET RECURSIVE fold(_)
        fold(its) ==
            IF its = <<>> THEN EmptyMap
            ELSE LET data == fold(SubSeq(its, 1, Len(its) - 1))
                     item == its[Len(its)]
                 IN [k \in DOMAIN data \cup DOMAIN item |->
                        IF k \in DOMAIN item THEN item[k] ELSE data[k]]
    IN fold(items)

\* getEnvServerSettings indexes parts[1] of an item that has the prefix and
\* no "=": an index out of range, the process panics
EnvPanics(env) ==
    \E i \in 1..Len(env) :
        /\ Len(SplitN2(env[i])) = 1
        /\ HasPrefix(SplitN2(env[i])[1], envSettingPrefix)

\* getEnvServerSettings(): the items whose name has the prefix, keyed by the
\* rest of the name
RECURSIVE getEnvServerSettings(_)
getEnvServerSettings(env) ==
    IF env = <<>> THEN EmptyMap
    ELSE LET data == getEnvServerSettings(SubSeq(env, 1, Len(env) - 1))
             parts == SplitN2(env[Len(env)])
         IN IF ~HasPrefix(parts[1], envSettingPrefix) THEN data
            ELSE LET key == TrimPrefix(parts[1], envSettingPrefix)
                 IN [k \in DOMAIN data \cup {key} |->
                        IF k = key THEN parts[2] ELSE data[k]]

\* the attribute text encoding/xml writes for one token (EscapeText): the
\* markup characters as entities, a character outside the XML character
\* range as U+FFFD
XmlEscapeTokRaw(t) == t

XmlEscapeTok(t) ==
    CASE t = "&" -> "&amp;"
      [] t = "<01>" -> "<FFFD>"
      [] OTHER -> t

XmlEscape(s) == [i \in 1..Len(s) |-> XmlEscapeTok(s[i])]

\* the token the decoder yields for one token of attribute text
XmlUnescapeTok(t) == IF t = "&amp;" THEN "&" ELSE t

XmlUnescape(s) == [i \in 1..Len(s) |-> XmlUnescapeTok(s[i])]

\* attribute text the decoder refuses: a bare "&" (no entity) and a
\* character outside the XML character range
XmlWellFormed(doc) ==
    \A i \in 1..Len(doc) : \A a \in 1..2 : \A j \in 1..Len(doc[i][a]) :
        doc[i][a][j] \notin {"&", "<01>"}

\* getDefaultServerSettings' parse (xml.Unmarshal and the loop over
\* settings.Properties): the last element of a name wins
RECURSIVE PropertiesToMap(_)
PropertiesToMap(doc) ==
    IF doc = <<>> THEN EmptyMap
    ELSE LET data == PropertiesToMap(SubSeq(doc, 1, Len(doc) - 1))
             name == XmlUnescape(doc[Len(doc)][1])
             value == XmlUnescape(doc[Len(doc)][2])
         IN [k \in DOMAIN data \cup {name} |->
                IF k = name THEN value ELSE data[k]]

\* a file that cannot be read, and a file that holds a document
NoFile(kind) == [kind |-> kind, doc |-> <<>>]
Document(doc) == [kind |-> "document", doc |-> doc]

\* getDefaultServerSettings(): [err, data]
getDefaultServerSettings(file) ==
    IF file.kind # "document" THEN [err |-> "read", data |-> EmptyMap]
    ELSE IF ~XmlWellFormed(file.doc) THEN [err |-> "parse", data |-> EmptyMap]
    ELSE [err |-> "nil", data |-> PropertiesToMap(file.doc)]

\* sort.Strings modelled as an insertion sort
SortStringsNone(keys) == keys

SortStrings(keys) ==
    LET Insert(x, sorted) ==
            LET n == Cardinality({i \in 1..Len(sorted) : ~StrLess(x, sorted[i])})
            IN SubSeq(sorted, 1, n) \o <<x>> \o SubSeq(sorted, n + 1, Len(sorted))
        RECURSIVE sort(_)
        sort(s) == IF s = <<>> THEN <<>>
                   ELSE Insert(s[Len(s)], sort(SubSeq(s, 1, Len(s) - 1)))
    IN sort(keys)

\* the orders in which `for key := range data` may visit the keys
RECURSIVE RangeOrders(_)
RangeOrders(S) ==
    IF S = {} THEN {<<>>}
    ELSE UNION {{<<x>> \o p : p \in RangeOrders(S \ {x})} : x \in S}

\* writeServerSettings: settings.Properties from the keys as ranged
BuildProperties(data, ranged) ==
    LET keys == SortStrings(ranged)
    IN [i \in 1..Len(keys) |-> <<keys[i], data[keys[i]]>>]

\* xml.MarshalIndent of settings.Properties: one property element per entry
XmlMarshal(props) ==
    [i \in 1..Len(props) |-> <<XmlEscape(props[i][1]), XmlEscape(props[i][2])>>]

WebDashboardDefault == [k \in {<<"WebDashboardEnabled">>} |-> <<"true">>]

ForcedSettings ==
    [k \in {<<"TelnetEnabled">>, <<"TelnetPort">>, <<"UserDataFolder">>,
            <<"WebDashboardPort">>} |->
        CASE k = <<"TelnetEnabled">> -> <<"true">>
          [] k = <<"TelnetPort">> -> <<"8081">>
          [] k = <<"UserDataFolder">> -> folderData
          [] k = <<"WebDashboardPort">> -> <<"8080">>]

entrypointMergeArgsEnvLast(defaults, env) ==
    <<defaults, WebDashboardDefault, ForcedSettings, getEnvServerSettings(env)>>

\* the arguments of entrypoint's call of merge, lowest precedence first
entrypointMergeArgs(defaults, env) ==
    <<defaults, WebDashboardDefault, getEnvServerSettings(env), ForcedSettings>>

----------------------------------------------------------------------------
(* The inputs the model draws from. *)

\* the items of pool whose index is in I, in pool order
PickSeq(pool, I) ==
    LET RECURSIVE pick(_)
        pick(n) == IF n = 0 THEN <<>>
                   ELSE IF n \in I THEN Append(pick(n - 1), pool[n])
                   ELSE pick(n - 1)
    IN pick(Len(pool))

EnvPool ==
    << <<"SETTING_", "ServerName", "=", "MyServer">>,
       <<"SETTING_", "ServerName", "=", "&", "=", "<01>">>,
       <<"SETTING_", "TelnetPort", "=", "9999">>,
       <<"SETTING_", "TelnetEnabled", "=", "false">>,
       <<"SETTING_", "UserDataFolder", "=", "default">>,
       <<"SETTING_", "WebDashboardPort", "=", "9999">>,
       <<"SETTING_", "WebDashboardEnabled", "=", "false">>,
       <<"X", "SETTING_", "ServerName", "=", "default">>,
       <<"SETTING_", "X">> >>

\* the process environments: at most MaxEnv items, no name twice (the Go
\* runtime keeps the first item of a name only)
Environments ==
    {PickSeq(EnvPool, I) :
        I \in {J \in SUBSET (1..Len(EnvPool)) :
                  /\ Cardinality(J) <= MaxEnv
                  /\ \A a, b \in J :
                        SplitN2(EnvPool[a])[1] = SplitN2(EnvPool[b])[1] => a = b}}

\* property elements of a shipped serverconfig.xml, as attribute text
PropPool ==
    { <<<<"ServerName">>, <<"default">>>>,
      <<<<"TelnetPort">>, <<"9999">>>> }

BoundedSeq(S, n) == UNION {[1..m -> S] : m \in 0..n}

\* the shipped defaults: unreadable, not well-formed, or a document
DefaultsFiles ==
    {NoFile("unreadable")}
        \cup {Document(d) : d \in {<< <<<<"X">>, <<"&">>>> >>} \cup BoundedSeq(PropPool, MaxProps)}

NamePool == << <<"X">>, <<"ServerName">>, <<"X", "X">>, <<"&">>, <<"<01>">> >>

MapsOver(names, values) == UNION {[D -> values] : D \in SUBSET names}

\* the mappings handed to merge
MergeMaps ==
    MapsOver({NamePool[i] : i \in 1..MaxMergeKeys}, {<<"true">>, <<"false">>})

\* the mappings handed to writeServerSettings
WriteMaps ==
    MapsOver({NamePool[i] : i \in 1..MaxKeys},
             {<<"true">>, <<"&">>, <<"<01>", "=">>})

----------------------------------------------------------------------------
(* The settings flow of entrypoint(). *)

SettingsInit(env, file) ==
    /\ environ = env
    /\ defaultsFile = file
    /\ mergeArgs = <<>>
    /\ settings = EmptyMap
    /\ properties = <<>>
    /\ settingsFile = NoFile("absent")
    /\ parsed = [err |-> "none", data |-> EmptyMap]

\* settings, err := getDefaultServerSettings()
EntrypointDefaults ==
    /\ pc = "defaults"
    /\ LET r == getDefaultServerSettings(defaultsFile) IN
         /\ settings' = r.data
         /\ pc' = IF r.err = "nil" THEN "merge" ELSE "failed"
    /\ UNCHANGED <<environ, defaultsFile, mergeArgs, properties, settingsFile, parsed>>
    /\ UNCHANGED lifeVars

\* settings = merge(settings, {WebDashboardEnabled}, getEnvServerSettings(), forced)
EntrypointMerge ==
    /\ pc = "merge"
    /\ IF EnvPanics(environ)
       THEN /\ pc' = "panic"
            /\ UNCHANGED <<mergeArgs, settings>>
       ELSE /\ mergeArgs' = entrypointMergeArgs(settings, environ)
            /\ settings' = merge(mergeArgs')
            /\ pc' = "write"
    /\ UNCHANGED <<environ, defaultsFile, properties, settingsFile, parsed>>
    /\ UNCHANGED lifeVars

\* writeServerSettings(data, path): the keys ranged in any order, sorted,
\* marshalled, written; os.WriteFile may fail
writeServerSettings(data, done, failed) ==
    \E ranged \in RangeOrders(DOMAIN data) :
        /\ properties' = BuildProperties(data, ranged)
        /\ \E ok \in BOOLEAN :
            /\ settingsFile' = IF ok THEN Document(XmlMarshal(properties'))
                                ELSE settingsFile
            /\ pc' = IF ok THEN done ELSE failed

\* err = writeServerSettings(settings, settingsFile)
EntrypointWrite ==
    /\ pc = "write"
    /\ writeServerSettings(settings, "start", "failed")
    /\ UNCHANGED <<environ, defaultsFile, mergeArgs, settings, parsed>>
    /\ UNCHANGED lifeVars

SettingsNext == EntrypointDefaults \/ EntrypointMerge \/ EntrypointWrite

\* a user{uid, gid}; NoUser stands for "no user": one that could not be
\* determined, or a variable not assigned yet
User(uid, gid) == [uid |-> uid, gid |-> gid]
NoUser == User(-1, -1)
Root == User(0, 0)

\* userUid, userGid
userUid == "1000"
userGid == "1000"

\* strconv.Atoi on the values of the model: [ok, n]
Atoi(str) ==
    CASE str = "0" -> [ok |-> TRUE, n |-> 0]
      [] str = "1000" -> [ok |-> TRUE, n |-> 1000]
      [] str = "1001" -> [ok |-> TRUE, n |-> 1001]
      [] OTHER -> [ok |-> FALSE, n |-> -1]

\* getCurrentUser: [err, user]
getCurrentUser ==
    IF currentUser = NoUser
    THEN [err |-> "no current user", user |-> Root]
    ELSE [err |-> "nil", user |-> currentUser]

\* getEnvUser: [err, user]; an unset or empty UID or GID takes the default
getEnvUser ==
    LET uidString == IF envUid = "" THEN userUid ELSE envUid
        gidString == IF envGid = "" THEN userGid ELSE envGid
        uid == Atoi(uidString)
        gid == Atoi(gidString)
    IN  IF ~uid.ok THEN [err |-> "invalid uid", user |-> Root]
        ELSE IF ~gid.ok THEN [err |-> "invalid gid", user |-> Root]
        ELSE [err |-> "nil", user |-> User(uid.n, gid.n)]

\* the process environment as far as the users go: _BOOTSTRAPPED, the
\* current user, UID and GID
UserInit(boot, cur, uid, gid, nonRoot) ==
    /\ bootstrapped = boot
    /\ currentUser = cur
    /\ envUid = uid
    /\ envGid = gid
    /\ nonRootUser = nonRoot

\* the bootstrapped entrypoint as the image runs it, with no restart interval
DefaultUserInit ==
    /\ UserInit(TRUE, User(1000, 1000), "", "", User(1000, 1000))
    /\ restartInterval = 0

\* the environment's DELETE_DEFAULT_MODS, ROOT_URLS and MOD_URLS, and the
\* Mods folder as the image ships it
InstallInit(del, roots, modurls) ==
    /\ deleteDefaultMods = del
    /\ rootUrls = roots
    /\ modUrls = modurls
    /\ wiped = FALSE
    /\ rootDone = 0
    /\ modDone = 0
    /\ mods = {"default"}

\* none of the three variables is set
NoInstallInit == InstallInit(FALSE, <<>>, <<>>)

LifeInit(arg, srv, lst) ==
    /\ args = arg
    /\ mainErr = "none"
    /\ notify = FALSE
    /\ sigChan = 0
    /\ sigHandled = 0
    /\ shSignal = "nil"
    /\ gpc = "none"
    /\ sigDelivered = 0
    /\ sigAt = "none"
    /\ exitCode = -1
    /\ errLogged = FALSE
    /\ shCallback = "none"
    /\ forwarded = 0
    /\ cmds = <<>>
    /\ desiredUser = NoUser
    /\ ran = {}
    /\ server = srv
    /\ serverStatus = "none"
    /\ listening = lst
    /\ uptime = 0
    /\ dpc = "idle"
    /\ conn = "none"
    /\ peer = "none"
    /\ inbuf = <<>>
    /\ sent = 0
    /\ readData = <<>>
    /\ elapsed = 0
    /\ readErr = FALSE
    /\ rupRes = "none"
    /\ dialRes = "none"
    /\ written = <<>>
    /\ healthy = FALSE
    /\ dialCount = 0
    /\ cbRes = "none"
    /\ closes = 0

InitSettings ==
    /\ \E env \in Environments, file \in DefaultsFiles : SettingsInit(env, file)
    /\ pc = "defaults"
    /\ LifeInit("none", "none", FALSE)
    /\ DefaultUserInit
    /\ NoInstallInit

\* entrypoint() from the load of the defaults to the written settings
\* file, over every environment and every shipped document of the bounds
SpecSettings == InitSettings /\ [][SettingsNext]_vars

----------------------------------------------------------------------------
(* merge, writeServerSettings and the parser as functions of their inputs. *)

CallMerge ==
    /\ pc = "callMerge"
    /\ settings' = merge(mergeArgs)
    /\ pc' = "merged"
    /\ UNCHANGED <<environ, defaultsFile, mergeArgs, properties, settingsFile, parsed>>
    /\ UNCHANGED lifeVars

\* merge(A, B, C) for every A, B, C of the bounds
InitMerge ==
    /\ environ = <<>> /\ defaultsFile = NoFile("unreadable")
    /\ mergeArgs \in [1..3 -> MergeMaps]
    /\ settings = EmptyMap /\ properties = <<>> /\ settingsFile = NoFile("absent")
    /\ parsed = [err |-> "none", data |-> EmptyMap]
    /\ pc = "callMerge"
    /\ LifeInit("none", "none", FALSE)
    /\ DefaultUserInit
    /\ NoInstallInit

SpecMerge == InitMerge /\ [][CallMerge]_vars

CallWrite ==
    /\ pc = "callWrite"
    /\ writeServerSettings(settings, "written", "writeFailed")
    /\ UNCHANGED <<environ, defaultsFile, mergeArgs, settings, parsed>>
    /\ UNCHANGED lifeVars

\* the written document read back by the parser of getDefaultServerSettings
CallParse ==
    /\ pc = "written"
    /\ parsed' = getDefaultServerSettings(settingsFile)
    /\ pc' = "parsedBack"
    /\ UNCHANGED <<environ, defaultsFile, mergeArgs, settings, properties, settingsFile>>
    /\ UNCHANGED lifeVars

\* writeServerSettings(M) and the parse of its document, for every M of
\* the bounds
InitRoundTrip ==
    /\ environ = <<>> /\ defaultsFile = NoFile("unreadable") /\ mergeArgs = <<>>
    /\ settings \in WriteMaps
    /\ properties = <<>> /\ settingsFile = NoFile("absent")
    /\ parsed = [err |-> "none", data |-> EmptyMap]
    /\ pc = "callWrite"
    /\ LifeInit("none", "none", FALSE)
    /\ DefaultUserInit
    /\ NoInstallInit

SpecRoundTrip == InitRoundTrip /\ [][CallWrite \/ CallParse]_vars

----------------------------------------------------------------------------
(* The console client: dialServer and readUntilPattern. *)

\* the ready prompt, in two halves, and the text the console sends before it
PromptHead == "Press 'help' to get a list of all commands. "
PromptTail == "Press 'exit' to end session."
Banner == "*** Connected with 7DTD server."

\* pattern of dialServer
pattern == <<PromptHead, PromptTail>>

ConsoleTokens == {Banner, PromptHead, PromptTail}

\* the timeout dialServer passes to readUntilPattern, in seconds
Timeout == 5

\* strings.Contains
Contains(text, pat) ==
    \E i \in 0..(Len(text) - Len(pat)) : SubSeq(text, i + 1, i + Len(pat)) = pat

\* the process is the bootstrapped entrypoint: no argument, _BOOTSTRAPPED=1
InEntrypoint == args = "none" /\ bootstrapped

\* the process runs: it has neither exited nor panicked
Alive == pc \notin {"exited", "panic"}

\* the flow that called dialServer: the main flow for the health check, the
\* goroutine of handleSignals for the shutdown
DialerRuns == Alive /\ (args = "health" \/ gpc = "inCallback")

\* net.Dial("tcp", "localhost:8081"), and the first lines of
\* readUntilPattern on success
Dial ==
    /\ DialerRuns
    /\ dpc = "dial"
    /\ dialCount' = dialCount + 1
    /\ IF listening
       THEN /\ conn' = "open"
            /\ peer' = "open"
            /\ dpc' = "rupCheck"
            /\ UNCHANGED dialRes
       ELSE /\ dialRes' = "connect"
            /\ dpc' = "done"
            /\ UNCHANGED <<conn, peer>>
    /\ UNCHANGED <<inbuf, sent, readData, elapsed, readErr, rupRes, written, healthy,
                   cbRes, closes>>
    /\ UNCHANGED <<settingsVars, pc, procVars, serverVars>>

\* the timeout test at the head of the loop: now.Sub(start) >= timeout
RupCheckTimeout ==
    IF elapsed >= Timeout
    THEN /\ rupRes' = "timeout"
         /\ dialRes' = "timeout"
         /\ dpc' = "close"
    ELSE /\ dpc' = "rupRead"
         /\ UNCHANGED <<rupRes, dialRes>>

RupCheck ==
    /\ DialerRuns
    /\ dpc = "rupCheck"
    /\ RupCheckTimeout
    /\ UNCHANGED <<conn, peer, inbuf, sent, readData, elapsed, readErr, written,
                   healthy, dialCount, cbRes, closes>>
    /\ UNCHANGED <<settingsVars, pc, procVars, serverVars>>

\* what readUntilPattern does when conn.Read returns an error
RupReadError ==
    /\ rupRes' = "nil"
    /\ dpc' = "cb"

\* a variant that keeps the last chunk only
RupKeepLastChunk(chunk) == chunk

\* data += string(buf[:read])
RupAccumulate(chunk) == readData \o chunk

\* read, err := conn.Read(buf) and the rest of the loop body.  Read blocks
\* while the console has sent nothing new and has not closed its end.
RupRead ==
    /\ DialerRuns
    /\ dpc = "rupRead"
    /\ \/ /\ inbuf # <<>>
          /\ LET n == IF Len(inbuf) < MaxRead THEN Len(inbuf) ELSE MaxRead IN
               /\ readData' = RupAccumulate(SubSeq(inbuf, 1, n))
               /\ inbuf' = SubSeq(inbuf, n + 1, Len(inbuf))
          /\ IF Contains(readData', pattern)
             THEN rupRes' = "nil" /\ dpc' = "cb"
             ELSE dpc' = "rupCheck" /\ UNCHANGED rupRes
          /\ UNCHANGED readErr
       \/ /\ inbuf = <<>>
          /\ peer = "closed"
          /\ readErr' = TRUE
          /\ RupReadError
          /\ UNCHANGED <<readData, inbuf>>
    /\ UNCHANGED <<conn, peer, sent, elapsed, dialRes, written, healthy, dialCount, cbRes, closes>>
    /\ UNCHANGED <<settingsVars, pc, procVars, serverVars>>

\* a second passes while readUntilPattern runs
Tick ==
    /\ DialerRuns
    /\ dpc \in {"rupCheck", "rupRead"}
    /\ elapsed < Timeout + MaxOver
    /\ elapsed' = elapsed + 1
    /\ UNCHANGED <<dpc, conn, peer, inbuf, sent, readData, readErr, rupRes, dialRes,
                   written, healthy, dialCount, cbRes, closes>>
    /\ UNCHANGED <<settingsVars, pc, procVars, serverVars>>

\* _, err := conn.Write(cmd): succeeds while the console's end is open; once
\* that end is gone the write succeeds (after a FIN) or fails (after a reset)
ConnWrite(cmd) ==
    /\ written' = Append(written, cmd)
    /\ \E res \in {"nil", "write failed"} :
          /\ (res = "write failed" => peer = "closed")
          /\ cbRes' = res

DialServerReturnsNil == dialRes' = "nil"

\* return cb(conn): dialServer returns what the callback returned
DialServerReturnsCb == dialRes' = cbRes'

\* return cb(conn): checkHealth's callback sets healthy, shutdownSdtdServer's
\* writes the shutdown command
Callback ==
    /\ DialerRuns
    /\ dpc = "cb"
    /\ IF args = "health"
       THEN healthy' = TRUE /\ cbRes' = "nil" /\ UNCHANGED written
       ELSE ConnWrite("shutdown") /\ UNCHANGED healthy
    /\ DialServerReturnsCb
    /\ dpc' = "close"
    /\ UNCHANGED <<conn, peer, inbuf, sent, readData, elapsed, readErr, rupRes,
                   dialCount, closes>>
    /\ UNCHANGED <<settingsVars, pc, procVars, serverVars>>

CloseOnSuccessOnly ==
    IF dialRes = "nil"
    THEN conn' = "closed" /\ closes' = closes + 1
    ELSE UNCHANGED <<conn, closes>>

\* defer conn.Close(): runs on every return after the dial succeeded
DeferredClose ==
    /\ conn' = "closed"
    /\ closes' = closes + 1

\* dialServer returns: the deferred call runs
ConnClose ==
    /\ DialerRuns
    /\ dpc = "close"
    /\ DeferredClose
    /\ dpc' = "done"
    /\ UNCHANGED <<peer, inbuf, sent, readData, elapsed, readErr, rupRes, dialRes,
                   written, healthy, dialCount, cbRes>>
    /\ UNCHANGED <<settingsVars, pc, procVars, serverVars>>

----------------------------------------------------------------------------
(* The server process and its console. *)

\* the console of the running server starts to accept connections (the
\* command of a passthrough or a relaunch is not the server)
ServerListen ==
    /\ server = "running"
    /\ args = "health" \/ InEntrypoint
    /\ ~listening
    /\ listening' = TRUE
    /\ UNCHANGED <<server, serverStatus, restartInterval, uptime>>
    /\ UNCHANGED <<settingsVars, pc, procVars, connVars>>

\* the console sends text on the connection
ServerSend ==
    /\ peer = "open"
    /\ sent < MaxSend
    /\ \E t \in ConsoleTokens : inbuf' = Append(inbuf, t)
    /\ sent' = sent + 1
    /\ UNCHANGED <<dpc, conn, peer, readData, elapsed, readErr, rupRes, dialRes,
                   written, healthy, dialCount, cbRes, closes>>
    /\ UNCHANGED <<settingsVars, pc, procVars, serverVars>>

\* the console closes its end of the connection (in order, or by a reset)
ServerClose ==
    /\ peer = "open"
    /\ peer' = "closed"
    /\ UNCHANGED <<dpc, conn, inbuf, sent, readData, elapsed, readErr, rupRes, dialRes,
                   written, healthy, dialCount, cbRes, closes>>
    /\ UNCHANGED <<settingsVars, pc, procVars, serverVars>>

\* what cmd.Run() returns for a process that has exited: nil for status 0,
\* an *exec.ExitError otherwise
ExitStatuses == {"nil", "exit status 1", "exit status 2"}

\* the server process exits, after a shutdown command or on its own; its
\* sockets are closed
ServerExit ==
    /\ server = "running"
    /\ server' = "exited"
    /\ listening' = FALSE
    /\ UNCHANGED <<serverStatus, restartInterval, uptime>>
    /\ peer' = IF peer = "open" THEN "closed" ELSE peer
    /\ UNCHANGED <<dpc, conn, inbuf, sent, readData, elapsed, readErr, rupRes, dialRes,
                   written, healthy, dialCount, cbRes, closes>>
    /\ UNCHANGED <<settingsVars, pc, procVars>>

----------------------------------------------------------------------------
(* The main flow, the signal handler and the supervision of the server. *)

\* a variant that clears the Mods folder after the installs
StepOrderWipeLast == <<"installRoot", "installMod", "wipe", "defaults">>

\* the first steps of entrypoint(), in the order of its statements
StepOrder == <<"wipe", "installRoot", "installMod", "defaults">>

\* the step that follows step p when p succeeded
StepAfter(p) == StepOrder[(CHOOSE i \in 1..3 : StepOrder[i] = p) + 1]

\* main: the operation a process selects, from its os.Args[1] ("none"
\* without an argument) and from whether its _BOOTSTRAPPED is "1"
Selects(arg, boot) ==
    IF arg # "none"
    THEN IF arg = "health" THEN "checkHealth" ELSE "passthrough"
    ELSE IF boot THEN "entrypoint" ELSE "bootstrap"

SelectedOperationNoSwitch == IF bootstrapped THEN "entrypoint" ELSE "bootstrap"

\* main: the operation it selects from os.Args and _BOOTSTRAPPED
SelectedOperation == Selects(args, bootstrapped)

\* main calls the selected operation; entrypoint() is entered at its first
\* step
Main ==
    /\ pc = "main"
    /\ ran' = ran \cup {SelectedOperation}
    /\ pc' = IF SelectedOperation = "entrypoint" THEN StepOrder[1] ELSE SelectedOperation
    /\ UNCHANGED <<bootstrapped, currentUser, envUid, envGid, nonRootUser, desiredUser>>
    /\ UNCHANGED <<args, mainErr, notify, sigChan, sigHandled, shSignal, gpc,
                   sigDelivered, sigAt, exitCode, errLogged, shCallback, forwarded, cmds,
                   installVars>>
    /\ UNCHANGED <<settingsVars, serverVars, connVars>>

\* passthrough: getEnvUser, then runCmd(args, execOpts{AsUser: user, Attach:
\* true, Signals: true})
Passthrough ==
    /\ pc = "passthrough"
    /\ IF getEnvUser.err # "nil"
       THEN /\ mainErr' = getEnvUser.err
            /\ pc' = "returned"
            /\ UNCHANGED desiredUser
       ELSE /\ desiredUser' = getEnvUser.user
            /\ pc' = "runCmdUser"
            /\ UNCHANGED mainErr
    /\ UNCHANGED <<bootstrapped, currentUser, envUid, envGid, nonRootUser, ran>>
    /\ UNCHANGED <<args, notify, sigChan, sigHandled, shSignal, gpc,
                   sigDelivered, sigAt, exitCode, errLogged, shCallback, forwarded, cmds,
                   installVars>>
    /\ UNCHANGED <<settingsVars, serverVars, connVars>>

\* an entry of cmds: the name of the command, the directory it is about, the
\* user it names (the one it runs as, or the one it sets), whether its
\* environment holds _BOOTSTRAPPED=1, and whether it succeeded (a command
\* that is still running counts as started: ok)
Cmd(name, dir, user, boot, ok) ==
    [name |-> name, dir |-> dir, user |-> user, boot |-> boot, ok |-> ok]

\* bootstrap, up to the choice of the desired user
Bootstrap ==
    /\ pc = "bootstrap"
    /\ IF getCurrentUser.err # "nil"
       THEN /\ mainErr' = getCurrentUser.err
            /\ pc' = "returned"
            /\ UNCHANGED desiredUser
       ELSE IF currentUser.uid = 0
       THEN IF getEnvUser.err # "nil"
            THEN /\ mainErr' = getEnvUser.err
                 /\ pc' = "returned"
                 /\ UNCHANGED desiredUser
            ELSE /\ desiredUser' = getEnvUser.user
                 /\ pc' = IF getEnvUser.user.uid # 0 THEN "updateUid" ELSE "chown"
                 /\ UNCHANGED mainErr
       ELSE /\ desiredUser' = currentUser
            /\ pc' = "relaunch"
            /\ UNCHANGED mainErr
    /\ UNCHANGED <<bootstrapped, currentUser, envUid, envGid, nonRootUser, ran>>
    /\ UNCHANGED <<args, notify, sigChan, sigHandled, shSignal, gpc,
                   sigDelivered, sigAt, exitCode, errLogged, shCallback, forwarded, cmds,
                   installVars>>
    /\ UNCHANGED <<settingsVars, serverVars, connVars>>

\* updateNonRootUser(toUser), up to the change of the uid: the refusal of a
\* zero uid or gid, the lookup of userName, and usermod when the uid differs
UpdateNonRootUserUid ==
    /\ pc = "updateUid"
    /\ IF desiredUser.uid = 0 \/ desiredUser.gid = 0
       THEN /\ mainErr' = "refusing to set non-root uid/gid to 0"
            /\ pc' = "returned"
            /\ UNCHANGED <<cmds, nonRootUser>>
       ELSE IF nonRootUser = NoUser
       THEN /\ mainErr' = "unknown user"
            /\ pc' = "returned"
            /\ UNCHANGED <<cmds, nonRootUser>>
       ELSE IF nonRootUser.uid # desiredUser.uid
       THEN \E ok \in BOOLEAN :
              /\ cmds' = Append(cmds, Cmd("usermod", <<>>, desiredUser, bootstrapped, ok))
              /\ IF ok
                 THEN /\ nonRootUser' = User(desiredUser.uid, nonRootUser.gid)
                      /\ pc' = "updateGid"
                      /\ UNCHANGED mainErr
                 ELSE /\ mainErr' = "exit status 1"
                      /\ pc' = "returned"
                      /\ UNCHANGED nonRootUser
       ELSE /\ pc' = "updateGid"
            /\ UNCHANGED <<mainErr, cmds, nonRootUser>>
    /\ UNCHANGED <<bootstrapped, currentUser, envUid, envGid, desiredUser, ran>>
    /\ UNCHANGED <<args, notify, sigChan, sigHandled, shSignal, gpc,
                   sigDelivered, sigAt, exitCode, errLogged, shCallback, forwarded,
                   installVars>>
    /\ UNCHANGED <<settingsVars, serverVars, connVars>>

\* updateNonRootUser(toUser): groupmod when the gid differs.  The gid was
\* read before usermod ran
UpdateNonRootUserGid ==
    /\ pc = "updateGid"
    /\ IF nonRootUser.gid # desiredUser.gid
       THEN \E ok \in BOOLEAN :
              /\ cmds' = Append(cmds, Cmd("groupmod", <<>>, desiredUser, bootstrapped, ok))
              /\ IF ok
                 THEN /\ nonRootUser' = User(nonRootUser.uid, desiredUser.gid)
                      /\ pc' = "chown"
                      /\ UNCHANGED mainErr
                 ELSE /\ mainErr' = "exit status 1"
                      /\ pc' = "returned"
                      /\ UNCHANGED nonRootUser
       ELSE /\ pc' = "chown"
            /\ UNCHANGED <<mainErr, cmds, nonRootUser>>
    /\ UNCHANGED <<bootstrapped, currentUser, envUid, envGid, desiredUser, ran>>
    /\ UNCHANGED <<args, notify, sigChan, sigHandled, shSignal, gpc,
                   sigDelivered, sigAt, exitCode, errLogged, shCallback, forwarded,
                   installVars>>
    /\ UNCHANGED <<settingsVars, serverVars, connVars>>

\* the directories bootstrap hands to setDirectoryOwner, in order
Directories == <<folderData, folderGenerated, folderServer>>

\* the chown commands run so far
Chowns == SelectSeq(cmds, LAMBDA c : c.name = "chown")

RelaunchAfterFirstChown == "relaunch"

\* setDirectoryOwner goes on to the next directory, and bootstrap to the
\* relaunch once the last is done
AfterChown == IF Len(Chowns) + 1 = Len(Directories) THEN "relaunch" ELSE "chown"

\* setDirectoryOwner, one directory: the directory is made when it is
\* missing, has to be a directory, and is handed to chown -R
SetDirectoryOwner ==
    /\ pc = "chown"
    /\ LET directory == Directories[Len(Chowns) + 1] IN
         \/ /\ mainErr' = "not a directory"
            /\ pc' = "returned"
            /\ UNCHANGED cmds
         \/ \E ok \in BOOLEAN :
              /\ cmds' = Append(cmds, Cmd("chown", directory, desiredUser, bootstrapped, ok))
              /\ IF ok
                 THEN /\ pc' = AfterChown
                      /\ UNCHANGED mainErr
                 ELSE /\ mainErr' = "exit status 1"
                      /\ pc' = "returned"
    /\ UNCHANGED <<args, notify, sigChan, sigHandled, shSignal, gpc, sigDelivered,
                   sigAt, exitCode, errLogged, shCallback, forwarded, userVars,
                   installVars>>
    /\ UNCHANGED <<settingsVars, serverVars, connVars>>

\* relaunchEntrypoint(desiredUser): os.Executable(), then runCmd with
\* _BOOTSTRAPPED=1 added to the environment
RelaunchEntrypoint ==
    /\ pc = "relaunch"
    /\ \/ /\ mainErr' = "no executable"
          /\ pc' = "returned"
       \/ /\ pc' = "runCmdUser"
          /\ UNCHANGED mainErr
    /\ UNCHANGED <<args, notify, sigChan, sigHandled, shSignal, gpc, sigDelivered,
                   sigAt, exitCode, errLogged, shCallback, forwarded, cmds, userVars,
                   installVars>>
    /\ UNCHANGED <<settingsVars, serverVars, connVars>>

\* opts.AsUser of the runCmd call at hand; the zero value user{} when the
\* caller names no user
AsUser == IF desiredUser = NoUser THEN Root ELSE desiredUser

\* runCmd puts "gosu <uid>:<gid>" before the command
Gosu == AsUser # Root /\ currentUser # AsUser

\* the user the command of runCmd runs as
RunsAs == IF Gosu THEN AsUser ELSE currentUser

\* runCmd with a user named: getCurrentUser has to succeed
RunCmdAsUser ==
    /\ pc = "runCmdUser"
    /\ IF AsUser # Root /\ getCurrentUser.err # "nil"
       THEN /\ mainErr' = getCurrentUser.err
            /\ pc' = "returned"
       ELSE /\ pc' = "runCmdSig"
            /\ UNCHANGED mainErr
    /\ UNCHANGED <<args, notify, sigChan, sigHandled, shSignal, gpc, sigDelivered,
                   sigAt, exitCode, errLogged, shCallback, forwarded, cmds, userVars,
                   installVars>>
    /\ UNCHANGED <<settingsVars, serverVars, connVars>>

\* handleSignals(callback): the channels, signal.Notify and the goroutine
HandleSignals(callback) ==
    /\ notify' = TRUE
    /\ gpc' = "recv"
    /\ shCallback' = callback

\* runCmd with opts.Signals: the handler that sends the signal on to the
\* command
RunCmdHandleSignals ==
    /\ pc = "runCmdSig"
    /\ HandleSignals("forward")
    /\ pc' = "runCmd"
    /\ UNCHANGED <<args, mainErr, sigChan, sigHandled, shSignal, sigDelivered, sigAt,
                   exitCode, errLogged, forwarded, cmds, userVars,
                   installVars>>
    /\ UNCHANGED <<settingsVars, serverVars, connVars>>

\* checkHealth: err := dialServer(...)
CheckHealth ==
    /\ pc = "checkHealth"
    /\ dpc = "idle"
    /\ dpc' = "dial"
    /\ pc' = "healthDial"
    /\ UNCHANGED <<conn, peer, inbuf, sent, readData, elapsed, readErr, rupRes,
                   dialRes, written, healthy, dialCount, cbRes, closes>>
    /\ UNCHANGED <<settingsVars, procVars, serverVars>>

\* checkHealth: dialServer has returned; return err
CheckHealthReturn ==
    /\ pc = "healthDial"
    /\ dpc = "done"
    /\ mainErr' = dialRes
    /\ pc' = "healthReturned"
    /\ UNCHANGED <<args, notify, sigChan, sigHandled, shSignal, gpc, sigDelivered, sigAt,
                   exitCode, errLogged,
                   shCallback, forwarded, cmds, userVars,
                   installVars>>
    /\ UNCHANGED <<settingsVars, serverVars, connVars>>

\* startSdtdServer: handleSignals makes the channels, registers them and
\* starts the goroutine
ServerExecOptsSignalsOn == TRUE

\* the Signals field of the execOpts startSdtdServer hands to runCmd
ServerExecOptsSignals == FALSE

StartSdtdServer ==
    /\ pc = "start"
    /\ HandleSignals("shutdown")
    /\ pc' = IF ServerExecOptsSignals THEN "runCmdSig" ELSE "runCmd"
    /\ UNCHANGED <<args, mainErr, sigChan, sigHandled, shSignal, sigDelivered, sigAt,
                   exitCode, errLogged, forwarded, cmds, userVars,
                   installVars>>
    /\ UNCHANGED <<settingsVars, serverVars, connVars>>

\* strings.Trim(item, " ") on the items of the model
Trim(item) == IF item = " b.rar" THEN "b.rar" ELSE item

\* the items an environment list may hold between its commas
UrlItems == {"", "a.zip", " b.rar", "c.txt"}

UrlLists == UNION {[1..n -> UrlItems] : n \in 0..MaxUrls}

RECURSIVE parseEnvList(_)
\* parseEnvList: the trimmed items, the empty ones left out
parseEnvList(raw) ==
    IF raw = <<>> THEN <<>>
    ELSE LET item == Trim(Head(raw)) IN
           IF item = "" THEN parseEnvList(Tail(raw))
           ELSE <<item>> \o parseEnvList(Tail(raw))

\* extract: the command chosen by the suffix of src ("none": unrecognized
\* file type)
Extractor(src) ==
    IF src = "a.zip" THEN "unzip"
    ELSE IF src = "b.rar" THEN "unrar"
    ELSE "none"

\* modFolder := filepath.Join(folderServer, "Mods")
modFolder == <<"/server/Mods">>

\* a variant that clears the folder whatever the environment says
WipeAlways == TRUE

\* os.Getenv(envDeleteDefaultMods) == "1"
WipeRequested == deleteDefaultMods

\* entrypoint: clearDirectory(modFolder) when DELETE_DEFAULT_MODS is "1".
\* os.Lstat or os.RemoveAll may fail with the folder as it was; os.MkdirAll
\* may fail with the folder removed
EntrypointWipe ==
    /\ pc = "wipe"
    /\ IF WipeRequested
       THEN \E res \in {"ok", "remove failed", "mkdir failed"} :
              /\ wiped' = (res # "remove failed")
              /\ mods' = IF res = "remove failed" THEN mods ELSE {}
              /\ pc' = IF res = "ok" THEN StepAfter("wipe") ELSE "failed"
       ELSE /\ pc' = StepAfter("wipe")
            /\ UNCHANGED <<wiped, mods>>
    /\ UNCHANGED <<deleteDefaultMods, rootUrls, modUrls, rootDone, modDone>>
    /\ UNCHANGED <<args, mainErr, notify, sigChan, sigHandled, shSignal, gpc,
                   sigDelivered, sigAt, exitCode, errLogged, shCallback, forwarded, cmds,
                   userVars>>
    /\ UNCHANGED <<settingsVars, serverVars, connVars>>

\* one pass of the loop of installUrls: download(url, extract).  The
\* download or the creation of dest may fail; an unrecognized file type is
\* an error; otherwise the extraction command runs, and may fail
InstallUrl(url, dest, ok) ==
    \E got \in BOOLEAN :
        IF got /\ Extractor(url) # "none"
        THEN \E x \in BOOLEAN :
                /\ cmds' = Append(cmds, Cmd(Extractor(url), dest, NoUser, TRUE, x))
                /\ ok = x
        ELSE /\ UNCHANGED cmds
             /\ ok = FALSE

\* err := installUrls(folderServer, rootUrls...)
EntrypointInstallRoot ==
    /\ pc = "installRoot"
    /\ LET urls == parseEnvList(rootUrls) IN
         IF rootDone < Len(urls)
         THEN \E ok \in BOOLEAN :
                /\ InstallUrl(urls[rootDone + 1], folderServer, ok)
                /\ rootDone' = IF ok THEN rootDone + 1 ELSE rootDone
                /\ pc' = IF ok THEN "installRoot" ELSE "failed"
         ELSE /\ pc' = StepAfter("installRoot")
              /\ UNCHANGED <<rootDone, cmds>>
    /\ UNCHANGED <<deleteDefaultMods, rootUrls, modUrls, wiped, modDone, mods>>
    /\ UNCHANGED <<args, mainErr, notify, sigChan, sigHandled, shSignal, gpc,
                   sigDelivered, sigAt, exitCode, errLogged, shCallback, forwarded,
                   userVars>>
    /\ UNCHANGED <<settingsVars, serverVars, connVars>>

\* err = installUrls(modFolder, modUrls...)
EntrypointInstallMod ==
    /\ pc = "installMod"
    /\ LET urls == parseEnvList(modUrls) IN
         IF modDone < Len(urls)
         THEN \E ok \in BOOLEAN :
                /\ InstallUrl(urls[modDone + 1], modFolder, ok)
                /\ modDone' = IF ok THEN modDone + 1 ELSE modDone
                /\ mods' = IF ok THEN mods \cup {urls[modDone + 1]} ELSE mods
                /\ pc' = IF ok THEN "installMod" ELSE "failed"
         ELSE /\ pc' = StepAfter("installMod")
              /\ UNCHANGED <<modDone, mods, cmds>>
    /\ UNCHANGED <<deleteDefaultMods, rootUrls, modUrls, wiped, rootDone>>
    /\ UNCHANGED <<args, mainErr, notify, sigChan, sigHandled, shSignal, gpc,
                   sigDelivered, sigAt, exitCode, errLogged, shCallback, forwarded,
                   userVars>>
    /\ UNCHANGED <<settingsVars, serverVars, connVars>>

\* the values of the entries of os.Environ() for _BOOTSTRAPPED, in order
BootstrappedEntries == IF bootstrapped THEN {<<"1">>} ELSE {<<>>, <<"0">>}

\* what a command finds for a variable whose entries are these: exec.Cmd
\* keeps the last entry of a duplicated key; "" when there is none
Getenv(entries) == IF entries = <<>> THEN "" ELSE entries[Len(entries)]

\* a variant that hands the environment on as it is
RelaunchEnvUnchanged(entries) == entries

\* env := append(os.Environ(), "_BOOTSTRAPPED=1")
RelaunchEnv(entries) == Append(entries, "1")

\* the command of the runCmd call at hand: the server, the argument-less
\* executable of relaunchEntrypoint, or the arguments of passthrough; the
\* last two with the environment of the process, the relaunch with RelaunchEnv
Command(entries) ==
    Cmd(IF InEntrypoint THEN "7DaysToDieServer.x86_64"
        ELSE IF args = "none" THEN "entrypoint" ELSE "passthrough",
        <<>>, RunsAs,
        Getenv(IF args = "none" /\ ~bootstrapped THEN RelaunchEnv(entries)
               ELSE entries) = "1",
        TRUE)

\* runCmd: cmd.Run() starts the command (the server, the passthrough command
\* or the relaunched entrypoint), or fails to
RunCmdStart ==
    /\ pc = "runCmd"
    /\ \/ /\ server' = "running"
          /\ \E entries \in BootstrappedEntries : cmds' = Append(cmds, Command(entries))
          /\ pc' = "cmdWait"
          /\ UNCHANGED mainErr
       \/ /\ mainErr' = "start failed"
          /\ pc' = "shWait"
          /\ UNCHANGED <<server, cmds>>
    /\ UNCHANGED <<serverStatus, listening, restartInterval, uptime>>
    /\ UNCHANGED <<args, notify, sigChan, sigHandled, shSignal, gpc, sigDelivered, sigAt,
                   exitCode, errLogged, shCallback, forwarded, userVars,
                   installVars>>
    /\ UNCHANGED <<settingsVars, connVars>>

RunCmdReturnsNil == mainErr' = "nil"

\* err := cmd.Run() ... return err
RunCmdReturnsErr == mainErr' = serverStatus'

\* runCmd: cmd.Run() returns once the command has exited, with the status
\* the command exited with
RunCmdWait ==
    /\ pc = "cmdWait"
    /\ server = "exited"
    /\ \E st \in ExitStatuses : serverStatus' = st
    /\ RunCmdReturnsErr
    /\ pc' = "shWait"
    /\ UNCHANGED <<server, listening, restartInterval, uptime>>
    /\ UNCHANGED <<args, notify, sigChan, sigHandled, shSignal, gpc, sigDelivered, sigAt,
                   exitCode, errLogged, shCallback, forwarded, cmds, userVars,
                   installVars>>
    /\ UNCHANGED <<settingsVars, connVars>>

\* where signalHandler.Wait returns to: startSdtdServer, or (from runCmd,
\* through passthrough or bootstrap) main
AfterWait == IF InEntrypoint THEN "sdtdReturn" ELSE "returned"

SignalHandlerWaitNever == pc' = AfterWait

\* signalHandler.Wait: returns at once when sh.signal is nil, otherwise
\* goes on to receive from sh.signalHandled
SignalHandlerWaitTest ==
    pc' = IF shSignal = "nil" THEN AfterWait ELSE "shRecv"

SignalHandlerWait ==
    /\ pc = "shWait"
    /\ SignalHandlerWaitTest
    /\ UNCHANGED <<settingsVars, lifeVars>>

\* signalHandler.Wait: <-sh.signalHandled
SignalHandlerRecv ==
    /\ pc = "shRecv"
    /\ sigHandled > 0
    /\ sigHandled' = sigHandled - 1
    /\ pc' = AfterWait
    /\ UNCHANGED <<args, mainErr, notify, sigChan, shSignal, gpc, sigDelivered, sigAt,
                   exitCode, errLogged,
                   shCallback, forwarded, cmds, userVars,
                   installVars>>
    /\ UNCHANGED <<settingsVars, serverVars, connVars>>

\* a variant that hands back the error of the shutdown when it failed
StartSdtdServerReturnsShutdownErr ==
    mainErr' = IF dialRes \notin {"none", "nil"} THEN dialRes ELSE mainErr

\* return err: the result of runCmd; the result of shutdownSdtdServer() is
\* dropped inside the callback
StartSdtdServerReturnsErr ==
    mainErr' = mainErr

\* startSdtdServer returns: the deferred signalHandler.Stop() runs
StartSdtdServerReturn ==
    /\ pc = "sdtdReturn"
    /\ notify' = FALSE
    /\ pc' = "sdtdReturned"
    /\ StartSdtdServerReturnsErr
    /\ UNCHANGED <<args, sigChan, sigHandled, shSignal, gpc, sigDelivered, sigAt,
                   exitCode, errLogged,
                   shCallback, forwarded, cmds, userVars,
                   installVars>>
    /\ UNCHANGED <<settingsVars, serverVars, connVars>>

\* the end of a process takes its goroutine and its connection with it
ProcessEnds ==
    /\ pc' = "exited"
    /\ gpc' = IF gpc \in {"none", "end"} THEN gpc ELSE "killed"
    /\ conn' = IF conn = "open" THEN "closed" ELSE conn
    /\ notify' = FALSE

\* the error the selected operation returned to main; a failed step of the
\* settings flow (pc = "failed") returned its error
OperationErr == IF pc = "failed" THEN "failed" ELSE mainErr

MainCodeZero(err) == 0

\* code := 0; if err != nil { ...; code = 1 }
MainCode(err) == IF err # "nil" THEN 1 ELSE 0

\* main, once the operation has returned: the error-level log line when err
\* is not nil, then os.Exit(code)
Exit ==
    /\ pc \in {"failed", "healthReturned", "sdtdReturned", "returned"}
    /\ mainErr' = OperationErr
    /\ errLogged' = (OperationErr # "nil")
    /\ exitCode' = MainCode(OperationErr)
    /\ ProcessEnds
    /\ UNCHANGED <<args, sigChan, sigHandled, shSignal, sigDelivered, sigAt,
                   shCallback, forwarded, cmds, userVars,
                   installVars>>
    /\ UNCHANGED <<dpc, peer, inbuf, sent, readData, elapsed, readErr, rupRes, dialRes,
                   written, healthy, dialCount, cbRes, closes>>
    /\ UNCHANGED <<settingsVars, serverVars>>

\* the goroutine of handleSignals: signal := <-sh.signalChannel
SigRecv ==
    /\ Alive
    /\ gpc = "recv"
    /\ sigChan > 0
    /\ sigChan' = sigChan - 1
    /\ gpc' = "assign"
    /\ UNCHANGED <<args, mainErr, notify, sigHandled, shSignal, sigDelivered, sigAt,
                   exitCode, errLogged,
                   shCallback, forwarded, cmds, userVars,
                   installVars>>
    /\ UNCHANGED <<settingsVars, pc, serverVars, connVars>>

\* sh.signal = &signal
SigAssign ==
    /\ Alive
    /\ gpc = "assign"
    /\ shSignal' = "set"
    /\ gpc' = "callback"
    /\ UNCHANGED <<args, mainErr, notify, sigChan, sigHandled, sigDelivered, sigAt,
                   exitCode, errLogged,
                   shCallback, forwarded, cmds, userVars,
                   installVars>>
    /\ UNCHANGED <<settingsVars, pc, serverVars, connVars>>

\* callback(*sh.signal): shutdownSdtdServer calls dialServer
SigCallback ==
    /\ Alive
    /\ gpc = "callback"
    /\ shCallback = "shutdown"
    /\ dpc \in {"idle", "done"}
    /\ dpc' = "dial"
    /\ gpc' = "inCallback"
    /\ conn' = "none" /\ peer' = "none"
    /\ inbuf' = <<>> /\ sent' = 0
    /\ readData' = <<>> /\ elapsed' = 0 /\ readErr' = FALSE
    /\ rupRes' = "none" /\ dialRes' = "none" /\ cbRes' = "none"
    /\ UNCHANGED <<args, mainErr, notify, sigChan, sigHandled, shSignal, sigDelivered, sigAt,
                   exitCode, errLogged,
                   shCallback, forwarded, cmds, userVars,
                   installVars>>
    /\ UNCHANGED <<written, healthy, dialCount, closes>>
    /\ UNCHANGED <<settingsVars, pc, serverVars>>

\* callback(*sh.signal) of runCmd: cmd.Process.Signal(sig).  cmd.Process is
\* nil until cmd.Run() has started the command, and the call on nil panics;
\* on a command that has exited the call returns an error, which is dropped
SigForward ==
    /\ Alive
    /\ gpc = "callback"
    /\ shCallback = "forward"
    /\ IF server = "none"
       THEN /\ pc' = "panic"
            /\ exitCode' = 2
            /\ gpc' = "killed"
            /\ notify' = FALSE
            /\ UNCHANGED forwarded
       ELSE /\ forwarded' = IF server = "running" THEN forwarded + 1 ELSE forwarded
            /\ gpc' = "cbDone"
            /\ UNCHANGED <<pc, exitCode, notify>>
    /\ UNCHANGED <<args, mainErr, sigChan, sigHandled, shSignal, sigDelivered, sigAt,
                   errLogged, shCallback, cmds, userVars,
                   installVars>>
    /\ UNCHANGED <<settingsVars, serverVars, connVars>>

\* a variant whose goroutine receives in a loop
GoroutineLoops == "recv"

\* the goroutine of handleSignals receives once and ends after the callback
GoroutineAfterCallback == "end"

\* the callback has returned: sh.signalHandled <- true
SigHandled ==
    /\ Alive
    /\ \/ gpc = "inCallback" /\ dpc = "done"
       \/ gpc = "cbDone"
    /\ sigHandled < 1
    /\ sigHandled' = sigHandled + 1
    /\ gpc' = GoroutineAfterCallback
    /\ UNCHANGED <<args, mainErr, notify, sigChan, shSignal, sigDelivered, sigAt,
                   exitCode, errLogged,
                   shCallback, forwarded, cmds, userVars,
                   installVars>>
    /\ UNCHANGED <<settingsVars, pc, serverVars, connVars>>

\* SIGINT or SIGTERM reaches the process: queued in sh.signalChannel when
\* it is registered and has room, dropped when it is full; without a
\* registration the signal ends the process
DeliverSignal ==
    /\ Alive
    /\ sigDelivered < MaxSignals
    /\ sigDelivered' = sigDelivered + 1
    /\ IF notify
       THEN /\ sigChan' = 1
            /\ sigAt' = IF sigChan = 0 /\ sigAt = "none" THEN server ELSE sigAt
            /\ UNCHANGED <<pc, gpc, conn, notify>>
       ELSE /\ ProcessEnds
            /\ UNCHANGED <<sigChan, sigAt>>
    /\ UNCHANGED <<args, mainErr, sigHandled, shSignal, exitCode, errLogged,
                   shCallback, forwarded, cmds, userVars,
                   installVars>>
    /\ UNCHANGED <<dpc, peer, inbuf, sent, readData, elapsed, readErr, rupRes, dialRes,
                   written, healthy, dialCount, cbRes, closes>>
    /\ UNCHANGED <<settingsVars, serverVars>>

Next ==
    \/ Main
    \/ Passthrough \/ RunCmdAsUser \/ RunCmdHandleSignals
    \/ Bootstrap \/ UpdateNonRootUserUid \/ UpdateNonRootUserGid
    \/ SetDirectoryOwner \/ RelaunchEntrypoint
    \/ EntrypointWipe \/ EntrypointInstallRoot \/ EntrypointInstallMod
    \/ EntrypointDefaults \/ EntrypointMerge \/ EntrypointWrite
    \/ StartSdtdServer \/ RunCmdStart \/ RunCmdWait
    \/ SignalHandlerWait \/ SignalHandlerRecv \/ StartSdtdServerReturn
    \/ CheckHealth \/ CheckHealthReturn
    \/ Exit
    \/ SigRecv \/ SigAssign \/ SigCallback \/ SigForward \/ SigHandled
    \/ DeliverSignal
    \/ Dial \/ RupCheck \/ RupRead \/ Tick \/ Callback \/ ConnClose
    \/ ServerListen \/ ServerSend \/ ServerClose \/ ServerExit

\* the shipped documents of the install flow: one that parses (with no
\* property), one that cannot be read
InstallDefaults == {Document(<<>>), NoFile("unreadable")}

\* the bootstrapped entrypoint with no argument, for every value of
\* DELETE_DEFAULT_MODS, ROOT_URLS and MOD_URLS of the bounds
InitInstall ==
    /\ \E file \in InstallDefaults : SettingsInit(<<>>, file)
    /\ pc = "main"
    /\ LifeInit("none", "none", FALSE)
    /\ DefaultUserInit
    /\ \E del \in BOOLEAN, roots \in UrlLists, modurls \in UrlLists :
          InstallInit(del, roots, modurls)

NextInstall ==
    \/ Main
    \/ EntrypointWipe \/ EntrypointInstallRoot \/ EntrypointInstallMod
    \/ EntrypointDefaults \/ EntrypointMerge \/ EntrypointWrite
    \/ StartSdtdServer \/ RunCmdStart \/ RunCmdWait
    \/ SignalHandlerWait \/ StartSdtdServerReturn
    \/ Exit
    \/ ServerExit

\* entrypoint() from its first line to the exit of the process, with no
\* signal
SpecInstall == InitInstall /\ [][NextInstall]_vars

\* the users and the values of UID and GID of the model
CurrentUsers == {NoUser, Root, User(1000, 1000), User(1001, 1001)}
EnvIds == {"", "0", "1001", "abc"}
NonRootUsers == {NoUser, User(1000, 1000)}

\* one run of the entrypoint binary: with the argument "health" beside a
\* server that runs or not; bootstrapped with no argument (the settings
\* flow, then the supervised server); with another argument (passthrough);
\* or not bootstrapped with no argument (bootstrap), for every user
Init ==
    /\ SettingsInit(<<>>, Document(<< <<<<"ServerName">>, <<"default">>>> >>))
    /\ pc = "main"
    /\ NoInstallInit
    /\ \/ LifeInit("none", "none", FALSE) /\ DefaultUserInit
       \/ DefaultUserInit /\ \E lst \in BOOLEAN : LifeInit("health", "running", lst)
       \/ LifeInit("health", "exited", FALSE) /\ DefaultUserInit
       \/ /\ LifeInit("other", "none", FALSE)
          /\ \E boot \in BOOLEAN, cur \in CurrentUsers, uid \in EnvIds, gid \in EnvIds :
                UserInit(boot, cur, uid, gid, User(1000, 1000))
          /\ restartInterval = 0
       \/ /\ LifeInit("none", "none", FALSE)
          /\ \E cur \in CurrentUsers, uid \in EnvIds, gid \in EnvIds,
                nonRoot \in NonRootUsers :
                UserInit(FALSE, cur, uid, gid, nonRoot)
          /\ restartInterval = 0

Spec == Init /\ [][Next]_vars

----------------------------------------------------------------------------
(* The supervised server over the minutes, with a restart interval in the
   environment. *)

\* a minute passes while the server runs
MinutePasses ==
    /\ server = "running"
    /\ uptime < MaxUptime
    /\ uptime' = uptime + 1
    /\ UNCHANGED <<server, serverStatus, listening, restartInterval>>
    /\ UNCHANGED <<settingsVars, pc, procVars, connVars>>

\* the bootstrapped entrypoint, with or without a restart interval
InitRestart ==
    /\ SettingsInit(<<>>, Document(<< <<<<"ServerName">>, <<"default">>>> >>))
    /\ pc = "main"
    /\ LifeInit("none", "none", FALSE)
    /\ UserInit(TRUE, User(1000, 1000), "", "", User(1000, 1000))
    /\ restartInterval \in 0..MaxInterval
    /\ NoInstallInit

NextRestart ==
    \/ Main
    \/ EntrypointWipe \/ EntrypointInstallRoot \/ EntrypointInstallMod
    \/ EntrypointDefaults \/ EntrypointMerge \/ EntrypointWrite
    \/ StartSdtdServer \/ RunCmdStart \/ RunCmdWait
    \/ SignalHandlerWait \/ StartSdtdServerReturn
    \/ Exit
    \/ ServerListen \/ ServerExit
    \/ MinutePasses

\* entrypoint() and the server it supervises, minute by minute, with no
\* signal
SpecRestart == InitRestart /\ [][NextRestart]_vars

----------------------------------------------------------------------------
(* Properties of the settings merger. *)

Forced(k, v) == k \in DOMAIN settings /\ settings[k] = v

MergeCalled == Len(mergeArgs) > 0

\* C1: the settings mapping entrypoint() passes to writeServerSettings holds
\* TelnetEnabled="true", TelnetPort="8081", UserDataFolder="/data" and
\* WebDashboardPort="8080", whatever the environment and the shipped
\* defaults say about these names.
C1_ForcedOverridesWin ==
    (pc \in {"write", "start", "failed"} /\ MergeCalled) =>
        /\ Forced(<<"TelnetEnabled">>, <<"true">>)
        /\ Forced(<<"TelnetPort">>, <<"8081">>)
        /\ Forced(<<"UserDataFolder">>, <<"/data">>)
        /\ Forced(<<"WebDashboardPort">>, <<"8080">>)

\* the settings are about to be written, the environment sets TelnetPort and
\* UserDataFolder to other values and the shipped defaults set TelnetPort
C1_Witness ==
    /\ pc = "write"
    /\ \E i, j \in 1..Len(environ) :
        /\ environ[i] = <<"SETTING_", "TelnetPort", "=", "9999">>
        /\ environ[j] = <<"SETTING_", "UserDataFolder", "=", "default">>
    /\ defaultsFile = Document(<< <<<<"TelnetPort">>, <<"9999">>>> >>)

\* C2: merge(A, B, C) defines exactly the names A, B or C define, and gives
\* each name C's value if C defines it, otherwise B's if B defines it,
\* otherwise A's.
C2_MergePrecedence ==
    pc = "merged" =>
        LET A == mergeArgs[1]
            B == mergeArgs[2]
            C == mergeArgs[3]
        IN /\ DOMAIN settings = DOMAIN A \cup DOMAIN B \cup DOMAIN C
           /\ \A k \in DOMAIN settings :
                settings[k] = IF k \in DOMAIN C THEN C[k]
                              ELSE IF k \in DOMAIN B THEN B[k]
                              ELSE A[k]

\* a merge where one name is defined by all three with C disagreeing, and
\* another by A alone
C2_Witness ==
    /\ pc = "merged"
    /\ \E k \in DOMAIN mergeArgs[3] :
        /\ k \in DOMAIN mergeArgs[1] /\ k \in DOMAIN mergeArgs[2]
        /\ mergeArgs[1][k] # mergeArgs[3][k]
        /\ mergeArgs[2][k] # mergeArgs[3][k]
    /\ \E k \in DOMAIN mergeArgs[1] :
        k \notin DOMAIN mergeArgs[2] \cup DOMAIN mergeArgs[3]

ForcedNames ==
    {<<"TelnetEnabled">>, <<"TelnetPort">>, <<"UserDataFolder">>, <<"WebDashboardPort">>}

\* item is NAME=V with NAME = SETTING_ followed by K, the "=" at position eq
\* being the first of the item
IsSetting(item, eq) ==
    /\ eq \in 2..Len(item)
    /\ item[1] = "SETTING_"
    /\ item[eq] = "="
    /\ \A l \in 1..(eq - 1) : item[l] # "="

SettingNames ==
    UNION {{SubSeq(environ[i], 2, eq - 1) :
                eq \in {e \in 1..Len(environ[i]) : IsSetting(environ[i], e)}} :
           i \in 1..Len(environ)}

XmlRepresentable(m) ==
    \A k \in DOMAIN m :
        /\ \A i \in 1..Len(k) : k[i] # "<01>"
        /\ \A i \in 1..Len(m[k]) : m[k][i] # "<01>"

\* C4 as stated: for every mapping M, parsing the document written by
\* writeServerSettings(M) yields a mapping equal to M.
C4_RoundTripAnyMapping ==
    pc = "parsedBack" => (parsed.err = "nil" /\ parsed.data = settings)

\* C4 as amended: for every mapping M whose names and values hold only
\* characters an XML document can carry, parsing the document written by
\* writeServerSettings(M) yields a mapping equal to M, whatever the order in
\* which the keys of M were visited.
C4_RoundTripRepresentable ==
    (pc = "parsedBack" /\ XmlRepresentable(settings)) =>
        (parsed.err = "nil" /\ parsed.data = settings)

\* a representable mapping of three names, one value needing an entity, was
\* written and parsed back
C4_Witness ==
    /\ pc = "parsedBack"
    /\ XmlRepresentable(settings)
    /\ Cardinality(DOMAIN settings) = 3
    /\ \E k \in DOMAIN settings : settings[k] = <<"&">>

\* C5: writeServerSettings emits exactly one property per key of the
\* mapping, carrying the key's value, with the names in strictly ascending
\* byte order: the sequence is the same for every order in which the keys
\* were visited.
C5_SortedProperties ==
    pc \in {"written", "writeFailed", "parsedBack"} =>
        /\ Len(properties) = Cardinality(DOMAIN settings)
        /\ \A i \in 1..Len(properties) :
              /\ properties[i][1] \in DOMAIN settings
              /\ properties[i][2] = settings[properties[i][1]]
        /\ \A i \in 1..(Len(properties) - 1) :
              StrLess(properties[i][1], properties[i + 1][1])
        /\ settingsFile.kind = "document" =>
              Len(settingsFile.doc) = Len(properties)

\* a mapping of three names was written: ServerName, X, XX in that order
C5_Witness ==
    /\ pc = "written"
    /\ Len(properties) = 3
    /\ properties[1][1] = <<"ServerName">>
    /\ properties[2][1] = <<"X">>
    /\ properties[3][1] = <<"X", "X">>

----------------------------------------------------------------------------
(* Properties of the console client and of the supervision. *)

PromptObserved == Contains(readData, pattern)

\* conn.Read is blocked: nothing to read, and the console keeps its end open
ReadBlocked == dpc = "rupRead" /\ inbuf = <<>> /\ peer = "open"

\* C6: when SIGINT or SIGTERM was delivered while the server ran and the
\* console accepted the connection and sent the ready prompt, exactly one
\* shutdown command has been written by the time startSdtdServer returns
\* (and never more than one at any time), and startSdtdServer returns only
\* after a server it started has exited.
C6_GracefulShutdown ==
    /\ Len(written) <= 1
    /\ (pc \in {"sdtdReturn", "sdtdReturned"} /\ server # "none") => server = "exited"
    /\ (pc \in {"sdtdReturn", "sdtdReturned"} /\ sigAt = "running" /\ PromptObserved) =>
            written = <<"shutdown">>

\* startSdtdServer has returned after a signal that came while the server
\* ran; the handler read the whole prompt and wrote the command
C6_Witness ==
    /\ pc = "sdtdReturned"
    /\ sigAt = "running"
    /\ PromptObserved
    /\ ~readErr
    /\ written = <<"shutdown">>
    /\ server = "exited"

\* C7 as stated: checkHealth dials once, writes nothing, returns success
\* exactly when the ready prompt was observed, and is not left in a read
\* past the timeout bound.
C7_HealthIffPrompt ==
    args = "health" =>
        /\ dialCount <= 1
        /\ written = <<>>
        /\ pc = "healthReturned" =>
              /\ dialCount = 1
              /\ (mainErr = "nil") <=> PromptObserved
        /\ ~(ReadBlocked /\ elapsed >= Timeout + MaxOver)

\* C8 as stated: on a connection that stays open and has not delivered the
\* pattern, readUntilPattern does not return success and is not left in a
\* read once the timeout (and the tolerance) has passed.
C8_TimeoutWhenSilent ==
    (peer = "open" /\ ~PromptObserved) =>
        /\ rupRes # "nil"
        /\ ~(ReadBlocked /\ elapsed >= Timeout + MaxOver)

\* C9 as stated: after a read error without the pattern, readUntilPattern
\* has not returned success; it goes on and ends with the timed-out error,
\* not before the timeout has passed.
C9_ReadErrorRetried ==
    (readErr /\ ~PromptObserved) =>
        /\ rupRes \in {"none", "timeout"}
        /\ rupRes = "timeout" => elapsed >= Timeout

\* C10 as stated: the callback runs, and a command is written, only on a
\* connection on which the whole ready prompt has been read.
C10_CallbackOnlyWhenReady ==
    (dpc = "cb" \/ written # <<>> \/ healthy) =>
        /\ PromptObserved
        /\ conn # "none"

\* C11: a connection dialServer opened is closed exactly once by the time
\* dialServer has returned, whatever the exit path (timeout, callback error,
\* callback success); it is not closed while the prompt wait or the callback
\* still runs; a failed dial closes nothing.
C11_ClosedOnceOnEveryPath ==
    /\ closes <= 1
    /\ closes <= dialCount
    /\ (dpc = "done" /\ dialRes # "connect") => (closes = 1 /\ conn = "closed")
    /\ (dpc = "done" /\ dialRes = "connect") => (closes = 0 /\ conn = "none")
    /\ (Alive /\ dpc \in {"rupCheck", "rupRead", "cb"}) => (closes = 0 /\ conn = "open")

\* dialServer has returned the callback's error, with the connection closed
C11_Witness ==
    /\ dpc = "done"
    /\ dialRes = "write failed"
    /\ closes = 1
    /\ conn = "closed"

\* C12 as stated: when the server exited with a non-zero status s, the
\* entrypoint exits with status s.
C12_ExitCodeMirrorsServer ==
    (exitCode # -1 /\ InEntrypoint) =>
        /\ serverStatus = "exit status 1" => exitCode = 1
        /\ serverStatus = "exit status 2" => exitCode = 2

\* C12, amended: when the server exited with a non-zero status, that error
\* is the entrypoint's own result and the entrypoint exits with status 1.
C12_ServerErrorPropagated ==
    (exitCode # -1 /\ InEntrypoint /\ serverStatus \notin {"none", "nil"}) =>
        /\ mainErr = serverStatus
        /\ exitCode = 1

\* the server exited with status 2 and the entrypoint has exited with 1
C12_Witness ==
    /\ pc = "exited"
    /\ InEntrypoint
    /\ serverStatus = "exit status 2"
    /\ mainErr = "exit status 2"
    /\ exitCode = 1

\* C13: when main has called os.Exit, the code is 0 exactly when the selected
\* operation returned no error, it is 1 otherwise, and the error-level log
\* line has been written exactly when there was an error.
C13_ExitCodeAndLog ==
    (pc = "exited" /\ exitCode # -1) =>
        /\ Cardinality(ran) = 1
        /\ mainErr # "none"
        /\ exitCode = 0 <=> mainErr = "nil"
        /\ mainErr # "nil" => (exitCode = 1 /\ errLogged)
        /\ mainErr = "nil" => ~errLogged

\* bootstrap returned an error to main, which logged it and exited with 1
C13_Witness ==
    /\ pc = "exited"
    /\ ran = {"bootstrap"}
    /\ mainErr \notin {"nil", "none"}
    /\ errLogged
    /\ exitCode = 1

\* the names of the commands runCmd has run
CmdNames == {cmds[i].name : i \in 1..Len(cmds)}

\* the settings flow of entrypoint() has left no trace
NoSettingsWork ==
    /\ mergeArgs = <<>>
    /\ properties = <<>>
    /\ settingsFile = NoFile("absent")

\* C14: main calls exactly one operation, the one its argument and
\* _BOOTSTRAPPED select, and the run shows the work of that operation only:
\* "health" dials and runs no command and writes no settings; another
\* argument runs the passthrough command only; no argument runs the
\* settings flow and the server when bootstrapped, and otherwise the
\* bootstrap commands and the relaunch.
C14_OneModePerInvocation ==
    /\ Cardinality(ran) <= 1
    /\ (pc # "main" /\ exitCode # -1) => Cardinality(ran) = 1
    /\ args = "health" =>
          /\ ran \subseteq {"checkHealth"}
          /\ pc \in {"main", "checkHealth", "healthDial", "healthReturned", "exited"}
          /\ CmdNames = {}
          /\ NoSettingsWork
          /\ shCallback = "none"
    /\ args = "other" =>
          /\ ran \subseteq {"passthrough"}
          /\ CmdNames \subseteq {"passthrough"}
          /\ NoSettingsWork
          /\ dialCount = 0
    /\ (args = "none" /\ bootstrapped) =>
          /\ ran \subseteq {"entrypoint"}
          /\ CmdNames \subseteq {"7DaysToDieServer.x86_64"}
          /\ shCallback # "forward"
    /\ (args = "none" /\ ~bootstrapped) =>
          /\ ran \subseteq {"bootstrap"}
          /\ CmdNames \subseteq {"usermod", "groupmod", "chown", "entrypoint"}
          /\ NoSettingsWork
          /\ dialCount = 0

\* a health check that ran to its end, with _BOOTSTRAPPED=1 in the
\* environment: only checkHealth was called
C14_Witness ==
    /\ args = "health"
    /\ bootstrapped
    /\ pc = "exited"
    /\ exitCode # -1
    /\ ran = {"checkHealth"}
    /\ dialCount = 1

\* C15 as stated: with a restart interval D in the environment, the timer
\* armed at server start has fired by max(D - 1 minute, 0): once the server
\* has run for D minutes a console connection has been dialled for the
\* warning.
C15_RestartTimerFires ==
    (restartInterval > 0 /\ server = "running" /\ uptime >= restartInterval) =>
        dialCount >= 1

\* the process is the entrypoint before its bootstrap
InBootstrap == args = "none" /\ ~bootstrapped

\* bootstrap has reached relaunchEntrypoint
RelaunchReached ==
    \/ pc \in {"relaunch", "runCmdUser", "runCmdSig", "runCmd", "cmdWait"}
    \/ "entrypoint" \in CmdNames

\* the entries of cmds for the relaunched entrypoint
Relaunches == SelectSeq(cmds, LAMBDA c : c.name = "entrypoint")

\* C16: in bootstrap() as root, the relaunch is reached only after the
\* non-root user has the UID/GID of the environment (when that UID is not 0)
\* and chown has succeeded on /data, /generated and /server, in that order,
\* for that user, with no failed command before it, and the entrypoint is
\* relaunched as that user; as another user no usermod, groupmod or chown is
\* run and the entrypoint is relaunched as the current user.
C16_BootstrapOwnership ==
    InBootstrap =>
        /\ Len(Relaunches) <= 1
        /\ (currentUser.uid = 0 /\ RelaunchReached) =>
              /\ getEnvUser.err = "nil"
              /\ desiredUser = getEnvUser.user
              /\ \A i \in 1..Len(cmds) : cmds[i].ok
              /\ Len(Chowns) = 3
              /\ \A i \in 1..3 :
                    /\ Chowns[i].dir = Directories[i]
                    /\ Chowns[i].user = getEnvUser.user
              /\ getEnvUser.user.uid # 0 => nonRootUser = getEnvUser.user
              /\ \A i \in 1..Len(Relaunches) :
                    /\ Relaunches[i].user = getEnvUser.user
                    /\ cmds[Len(cmds)] = Relaunches[i]
        /\ (currentUser.uid # 0) =>
              /\ CmdNames \subseteq {"entrypoint"}
              /\ \A i \in 1..Len(Relaunches) : Relaunches[i].user = currentUser

\* root with UID=1001: usermod, the three chowns, then the relaunch as
\* 1001:1000, which has run to its end
C16_Witness ==
    /\ InBootstrap
    /\ currentUser = Root
    /\ envUid = "1001"
    /\ Len(cmds) = 5
    /\ cmds[1].name = "usermod"
    /\ cmds[5].name = "entrypoint"
    /\ cmds[5].user = User(1001, 1000)
    /\ pc = "exited"
    /\ exitCode = 0

\* the shutdown a signal started has failed: the dial was refused or the
\* prompt wait ran out of time
ShutdownFailed == InEntrypoint /\ dpc = "done" /\ dialRes \in {"connect", "timeout"}

\* C17: when the graceful shutdown a signal started fails (connection
\* refused, prompt wait failed), the supervisor does not exit while the
\* server runs and sends it no signal; startSdtdServer returns only once
\* the server has exited, and returns the server's result, never the error
\* of the shutdown.
C17_ShutdownFailureIgnored ==
    InEntrypoint =>
        /\ forwarded = 0
        /\ server = "running" => pc = "cmdWait"
        /\ pc \in {"sdtdReturn", "sdtdReturned"} =>
              /\ server # "running"
              /\ mainErr \notin {"connect", "timeout", "write failed"}
              /\ server = "exited" =>
                    (mainErr = serverStatus /\ mainErr \in ExitStatuses)
              /\ server = "none" => mainErr = "start failed"

\* the console refused the connection of the shutdown, the server later
\* exited by itself with status 0, and startSdtdServer has returned nil
C17_Witness ==
    /\ ShutdownFailed
    /\ dialRes = "connect"
    /\ pc = "sdtdReturned"
    /\ gpc = "end"
    /\ server = "exited"
    /\ mainErr = "nil"

\* C18: however many SIGINT/SIGTERM are delivered during one run of
\* startSdtdServer, the shutdown routine is invoked at most once and at
\* most one shutdown command is written; a signal delivered while the
\* handler is registered is queued or dropped and leaves the main flow,
\* the dial count and the written commands as they are; no panic.
C18_ShutdownAtMostOnce ==
    /\ [](InEntrypoint => (dialCount <= 1 /\ Len(written) <= 1 /\ pc # "panic"))
    /\ [][(InEntrypoint /\ notify /\ sigDelivered' # sigDelivered) =>
              /\ pc' = pc
              /\ gpc' = gpc
              /\ sigChan' = 1
              /\ dialCount' = dialCount
              /\ written' = written]_vars

\* a second signal sits in the channel while the shutdown of the first is
\* on its connection
C18_Witness ==
    /\ InEntrypoint
    /\ sigDelivered = 2
    /\ gpc = "inCallback"
    /\ dpc \in {"rupCheck", "rupRead", "cb"}
    /\ sigChan = 1
    /\ dialCount = 1

\* C19: in the entrypoint flow the supervisor never signals the server
\* process: the only handler installed is the one of startSdtdServer, whose
\* callback is the console shutdown, and a handled signal has led to one
\* dial of the console and nothing else.
C19_NoSignalForwarded ==
    InEntrypoint =>
        /\ forwarded = 0
        /\ shCallback \in {"none", "shutdown"}
        /\ pc # "runCmdSig"
        /\ gpc = "end" => dialCount = 1

\* a signal caught while the server ran was answered with the shutdown
\* command alone, and the server has exited
C19_Witness ==
    /\ InEntrypoint
    /\ sigAt = "running"
    /\ gpc = "end"
    /\ written = <<"shutdown">>
    /\ forwarded = 0
    /\ server = "exited"

\* the callback of dialServer has been invoked
CallbackInvoked == cbRes # "none"

InRupLoop == dpc \in {"rupCheck", "rupRead"}

\* C21: readUntilPattern appends every chunk it reads (at most MaxRead
\* tokens, the buffer) to the text read so far, losing nothing, and returns
\* nil at the first read after which that text contains the pattern,
\* whatever the time: it is never in its loop with the pattern in the text,
\* and it read nothing after the chunk that completed the pattern.
C21_SuccessAtFirstMatch ==
    /\ [](PromptObserved =>
            /\ ~InRupLoop
            /\ rupRes = "nil"
            /\ Len(readData) > MaxRead =>
                  ~Contains(SubSeq(readData, 1, Len(readData) - MaxRead), pattern))
    /\ [][readData' # readData =>
              /\ dpc = "rupRead"
              /\ Len(readData') > Len(readData)
              /\ Len(readData') <= Len(readData) + MaxRead
              /\ readData' \o inbuf' = readData \o inbuf
              /\ PromptObserved' <=> dpc' = "cb"]_vars

\* the prompt came after a banner, in more tokens than one read takes:
\* readUntilPattern returned nil before the timeout, with no read error
C21_Witness ==
    /\ dpc \in {"cb", "close", "done"}
    /\ rupRes = "nil"
    /\ ~readErr
    /\ Len(readData) > MaxRead
    /\ PromptObserved
    /\ elapsed < Timeout

\* the extraction commands run so far into folder dir
Extractions(dir) ==
    SelectSeq(cmds, LAMBDA c : c.name \in {"unzip", "unrar"} /\ c.dir = dir)

\* the starts of the server so far
ServerStarts == SelectSeq(cmds, LAMBDA c : c.name = "7DaysToDieServer.x86_64")

\* rank of a command in the order of entrypoint()
CmdRank(c) ==
    IF c.name = "7DaysToDieServer.x86_64" THEN 3
    ELSE IF c.dir = modFolder THEN 2 ELSE 1

WipeDone == wiped = deleteDefaultMods
RootInstalled == rootDone = Len(parseEnvList(rootUrls))
ModInstalled == modDone = Len(parseEnvList(modUrls))
DefaultsLoaded == getDefaultServerSettings(defaultsFile).err = "nil"
SettingsWritten == settingsFile.kind = "document"

\* C22: entrypoint() wipes the Mods folder (when asked to), installs
\* ROOT_URLS, installs MOD_URLS, loads the defaults, writes the settings
\* file and starts the server, in this order, each step only after every
\* earlier one succeeded: no server without a written settings file, at
\* most one server start, and nothing installed from MOD_URLS is removed
\* by the wipe.
C22_StepsInOrder ==
    /\ [](/\ wiped => deleteDefaultMods
          /\ (rootDone > 0 \/ Len(Extractions(folderServer)) > 0) => WipeDone
          /\ (modDone > 0 \/ Len(Extractions(modFolder)) > 0) =>
                (WipeDone /\ RootInstalled)
          /\ pc \in {"merge", "write"} =>
                (WipeDone /\ RootInstalled /\ ModInstalled /\ DefaultsLoaded)
          /\ SettingsWritten =>
                (WipeDone /\ RootInstalled /\ ModInstalled /\ DefaultsLoaded)
          /\ (server # "none" \/ notify \/ Len(ServerStarts) > 0
                \/ pc \in {"start", "runCmd", "cmdWait", "shWait", "sdtdReturn",
                            "sdtdReturned"}) =>
                SettingsWritten
          /\ Len(ServerStarts) <= 1
          /\ \A i \in 1..Len(cmds) : \A j \in i..Len(cmds) :
                /\ CmdRank(cmds[i]) <= CmdRank(cmds[j])
                /\ i < j => cmds[i].ok
          /\ \A i \in 1..modDone : parseEnvList(modUrls)[i] \in mods)
    /\ [][/\ ~(mods \subseteq mods') => (modDone = 0 /\ cmds = <<>> /\ rootDone = 0)
          /\ wiped' # wiped => (modDone = 0 /\ cmds = <<>> /\ rootDone = 0)]_vars

\* with DELETE_DEFAULT_MODS=1, one url in ROOT_URLS and two in MOD_URLS:
\* the folder was wiped, the three archives were extracted, the settings
\* file was written, the server ran and exited, and the Mods folder holds
\* the two mods and nothing else
C22_Witness ==
    /\ deleteDefaultMods /\ wiped
    /\ rootDone = 1
    /\ modDone = 2
    /\ mods = {"a.zip", "b.rar"}
    /\ SettingsWritten
    /\ Len(cmds) = 4
    /\ Len(ServerStarts) = 1
    /\ server = "exited"
    /\ pc = "exited"
    /\ exitCode = 0

\* C23 as stated: with the forwarding handler of runCmd installed
\* (passthrough, relaunchEntrypoint), no delivery of a signal makes the
\* callback use cmd.Process while it is unset: the process never panics.
C23_NoUseOfUnsetProcess ==
    shCallback = "forward" => (pc # "panic" /\ exitCode # 2)

\* the goroutine of handleSignals has taken a signal from the channel and
\* its callback has not returned yet
CallbackPending == gpc \in {"assign", "callback", "inCallback"}

\* C24 as stated: when signalHandler.Wait is called after the goroutine
\* has taken a signal from the channel, it does not return before the
\* callback has completed: with the callback pending or running, the test
\* of sh.signal sends the main flow to the receive from sh.signalHandled.
C24_WaitCoversCallback ==
    [][(pc = "shWait" /\ CallbackPending /\ pc' # pc) => pc' = "shRecv"]_vars

\* the operation the process started by command c selects: the relaunch
\* runs the executable with no argument
ChildOperation(c) == Selects("none", c.boot)

\* C25: bootstrap relaunches the entrypoint at most once, and the process
\* it starts has no argument and finds _BOOTSTRAPPED=1, whatever the
\* environment held: it selects entrypoint(), and entrypoint() neither
\* bootstraps nor relaunches; only a process that is not bootstrapped runs
\* bootstrap().
C25_RelaunchDepthOne ==
    /\ Len(Relaunches) <= 1
    /\ \A i \in 1..Len(Relaunches) :
          /\ Relaunches[i].boot
          /\ ChildOperation(Relaunches[i]) = "entrypoint"
    /\ Relaunches # <<>> => ran = {"bootstrap"}
    /\ "bootstrap" \in ran => InBootstrap
    /\ "entrypoint" \in ran =>
          (Relaunches = <<>> /\ pc \notin {"bootstrap", "relaunch"})

\* user 1001 started the entrypoint without _BOOTSTRAPPED: bootstrap has
\* relaunched it once, as that user, and the relaunched process has ended
\* with status 0
C25_Witness ==
    /\ InBootstrap
    /\ currentUser = User(1001, 1001)
    /\ Len(Relaunches) = 1
    /\ Relaunches[1].user = currentUser
    /\ ChildOperation(Relaunches[1]) = "entrypoint"
    /\ pc = "exited"
    /\ exitCode = 0

====
